---- MODULE Spec2Model ----
(***************************************************************************)
(* Model of config-ro (src/src/lib.rs): the process-wide table CONFIGS, a  *)
(* std::sync::RwLock<HashMap<String, Value>>, filled lazily by Config::new *)
(* from configs/{name}.json and read by Config::get through a dotted path. *)
(***************************************************************************)
EXTENDS Integers, Sequences, FiniteSets, TLC

\* ------------------------------------------------------------------ bounds
NumThreads == 2
MaxCalls == 2
MaxPathLen == 4

Threads == 1..NumThreads
NoThread == 0

\* ------------------------------------------------- serde_json::Value nodes
\* Object keys and path segments are sequences of characters, so that a path
\* can be split on '.' exactly as str::split does.
Dot == "."
Chars == {"a", "b", Dot}

EmptyFields == [k \in {} |-> 0]

JNull == [kind |-> "null", b |-> FALSE, n |-> 0, s |-> "", items |-> <<>>, fields |-> EmptyFields]
JBool(v) == [kind |-> "bool", b |-> v, n |-> 0, s |-> "", items |-> <<>>, fields |-> EmptyFields]
JNum(v) == [kind |-> "number", b |-> FALSE, n |-> v, s |-> "", items |-> <<>>, fields |-> EmptyFields]
JStr(v) == [kind |-> "string", b |-> FALSE, n |-> 0, s |-> v, items |-> <<>>, fields |-> EmptyFields]
JArr(v) == [kind |-> "array", b |-> FALSE, n |-> 0, s |-> "", items |-> v, fields |-> EmptyFields]
JObj(v) == [kind |-> "object", b |-> FALSE, n |-> 0, s |-> "", items |-> <<>>, fields |-> v]

\* ------------------------------------------------ the configs/ directory
Names == {"x", "y"}
NoName == "-"

\* What configs/{name}.json holds: nothing (no such file), text that is not
\* JSON, or one of two JSON texts.
Missing == "missing"
BadText == "invalid json"
TextV1 == "v1.json"
TextV2 == "v2.json"
FileStates == {Missing, BadText, TextV1, TextV2}

\* {"a": {"b": 7, "a": "s", "": 300}, "b": [{"a": 1}], "": {"a": true}}
DocV1 ==
    JObj((<<"a">> :> JObj((<<"b">> :> JNum(7)) @@ (<<"a">> :> JStr("s")) @@ (<<>> :> JNum(300))))
         @@ (<<"b">> :> JArr(<<JObj(<<"a">> :> JNum(1))>>))
         @@ (<<>> :> JObj(<<"a">> :> JBool(TRUE))))

\* {"a": {"b": "new", "a": null}, "b": -1}
DocV2 ==
    JObj((<<"a">> :> JObj((<<"b">> :> JStr("new")) @@ (<<"a">> :> JNull)))
         @@ (<<"b">> :> JNum(0 - 1)))

\* serde_json::from_str on the text of a file
IsJson(text) == text \in {TextV1, TextV2}
Parse(text) == IF text = TextV1 THEN DocV1 ELSE DocV2

Loadable(f) == f # Missing /\ IsJson(f)

\* ------------------------------------------------------- Config::get, pure
\* Option<T>: None, or Some(v); a deserialized value is carried as its node.
None == [some |-> FALSE, val |-> JNull]
Some(v) == [some |-> TRUE, val |-> v]

\* str::split('.'): the segments between dots; the empty path has one empty
\* segment, and a leading, trailing or doubled dot gives an empty segment.
RECURSIVE SplitFrom(_, _, _)
SplitFrom(rest, seg, done) ==
    IF rest = <<>> THEN Append(done, seg)
    ELSE IF Head(rest) = Dot THEN SplitFrom(Tail(rest), <<>>, Append(done, seg))
    ELSE SplitFrom(Tail(rest), Append(seg, Head(rest)), done)

\* A split that drops the empty segments.
SplitSkippingEmpty(path) ==
    SelectSeq(SplitFrom(path, <<>>, <<>>), LAMBDA seg : seg # <<>>)

\* A split that drops a trailing empty segment (str::split_terminator).
SplitTerminator(path) ==
    LET segs == SplitFrom(path, <<>>, <<>>)
    IN IF segs[Len(segs)] = <<>> THEN SubSeq(segs, 1, Len(segs) - 1) ELSE segs

Split(path) == SplitFrom(path, <<>>, <<>>)

\* serde_json::Value::get with a &str index: a member of an object, None for
\* a missing key and for every node that is not an object.
ValueGet(node, key) ==
    IF node.kind = "object" /\ key \in DOMAIN node.fields
    THEN Some(node.fields[key])
    ELSE None

\* The for loop of Config::get over the segments, from the cursor `current`.
RECURSIVE Descend(_, _)
Descend(current, keys) ==
    IF keys = <<>> THEN Some(current)
    ELSE LET next == ValueGet(current, Head(keys))
         IN IF next.some THEN Descend(next.val, Tail(keys)) ELSE None

\* The requested shapes T of get::<T>.
Types == {"Value", "String", "i64", "u8", "bool"}

\* serde_json::from_value::<T>(node).ok()
FromValue(node, T) ==
    CASE T = "Value" -> Some(node)
      [] T = "String" -> IF node.kind = "string" THEN Some(node) ELSE None
      [] T = "i64" -> IF node.kind = "number" THEN Some(node) ELSE None
      [] T = "u8" -> IF node.kind = "number" /\ node.n >= 0 /\ node.n <= 255
                     THEN Some(node) ELSE None
      [] T = "bool" -> IF node.kind = "bool" THEN Some(node) ELSE None

\* Config::get on the table `configs` for a handle named `name`.
ConfigGet(configs, name, path, T) ==
    IF name \notin DOMAIN configs THEN None
    ELSE LET found == Descend(configs[name], Split(path))
         IN IF found.some THEN FromValue(found.val, T) ELSE None

\* Every path of at most MaxPathLen characters.
Paths == UNION {[1..k -> Chars] : k \in 0..MaxPathLen}

\* The paths and shapes the threads of the concurrent model ask for.
ProbePaths == {<<"a", Dot, "b">>}
ProbeTypes == {"i64"}

\* ------------------------------------------------------------------- state
VARIABLES
    CONFIGS,    \* the HashMap behind the lock, name -> Value
    poisoned,   \* CONFIGS: the RwLock's poison flag
    readers,    \* threads holding a read guard of CONFIGS
    writer,     \* the thread holding the write guard, or NoThread
    files,      \* configs/{name}.json, per name
    pc,         \* per thread: where it stands in Config::new or Config::get
    cname,      \* per thread: the `name` argument of the running Config::new
    handle,     \* per thread: the name of the Config it holds, or NoName
    gpath,      \* per thread: the `path` argument of its last Config::get
    gty,        \* per thread: the type T of its last Config::get
    outcome,    \* per thread: how its last call ended, or that it is running
    result,     \* per thread: what its last Config::get returned
    loads,      \* history: from_name invocations, per name
    inserts,    \* history: HashMap::insert calls, per name
    returned,   \* history: names for which some Config::new has returned
    failed,     \* history: names for which from_name has panicked
    calls       \* history: Config::new calls started so far

vars == <<CONFIGS, poisoned, readers, writer, files, pc, cname, handle, gpath, gty,
          outcome, result, loads, inserts, returned, failed, calls>>

lockVars == <<poisoned, readers, writer>>
getVars == <<gpath, gty, result>>
histVars == <<loads, inserts, returned, failed>>

NewPcs == {"new_read", "new_check", "new_write", "new_load"}
GetPcs == {"get_read", "get_walk"}
LoadPanics == {"Failed to read config file", "Invalid JSON format"}
PoisonPanics == {"new: PoisonError", "get: PoisonError"}

\* The state of a fresh process over the directory contents `fs`.
InitOver(fs) ==
    /\ CONFIGS = EmptyFields
    /\ poisoned = FALSE
    /\ readers = {}
    /\ writer = NoThread
    /\ files = fs
    /\ pc = [t \in Threads |-> "idle"]
    /\ cname = [t \in Threads |-> NoName]
    /\ handle = [t \in Threads |-> NoName]
    /\ gpath = [t \in Threads |-> <<>>]
    /\ gty = [t \in Threads |-> "Value"]
    /\ outcome = [t \in Threads |-> "none"]
    /\ result = [t \in Threads |-> None]
    /\ loads = [n \in Names |-> 0]
    /\ inserts = [n \in Names |-> 0]
    /\ returned = {}
    /\ failed = {}
    /\ calls = 0

Init == \E fs \in [Names -> FileStates] : InitOver(fs)

\* ------------------------------------------------------------- the loader
\* A loader that reads configs/x.json whatever the name.
from_name_fixed_file(fs, name) ==
    IF fs["x"] = Missing
    THEN [panic |-> "Failed to read config file", value |-> JNull]
    ELSE IF ~IsJson(fs["x"])
    THEN [panic |-> "Invalid JSON format", value |-> JNull]
    ELSE [panic |-> "", value |-> Parse(fs["x"])]

\* from_name: read configs/{name}.json and parse it; either step may panic.
from_name(fs, name) ==
    IF fs[name] = Missing
    THEN [panic |-> "Failed to read config file", value |-> JNull]
    ELSE IF ~IsJson(fs[name])
    THEN [panic |-> "Invalid JSON format", value |-> JNull]
    ELSE [panic |-> "", value |-> Parse(fs[name])]

\* ------------------------------------------------------------ Config::new
\* A thread calls Config::new(name). The call is marked as a retry when
\* from_name has panicked for the name before and its file is loadable now.
CallNew(t, name) ==
    /\ pc[t] = "idle"
    /\ calls < MaxCalls
    /\ calls' = calls + 1
    /\ pc' = [pc EXCEPT ![t] = "new_read"]
    /\ cname' = [cname EXCEPT ![t] = name]
    /\ outcome' = [outcome EXCEPT ![t] =
                       IF name \in failed /\ Loadable(files[name])
                       THEN "retrying" ELSE "pending"]
    /\ gpath' = [gpath EXCEPT ![t] = <<>>]
    /\ gty' = [gty EXCEPT ![t] = "Value"]
    /\ result' = [result EXCEPT ![t] = None]
    /\ UNCHANGED <<CONFIGS, lockVars, files, handle, histVars>>

\* CONFIGS.read().unwrap(): the read guard is granted while no writer holds
\* the lock.
NewRead(t) ==
    /\ pc[t] = "new_read"
    /\ writer = NoThread
    /\ ~poisoned
    /\ readers' = readers \cup {t}
    /\ pc' = [pc EXCEPT ![t] = "new_check"]
    /\ UNCHANGED <<CONFIGS, poisoned, writer, files, cname, handle, getVars, outcome,
                   histVars, calls>>

\* CONFIGS.read() on a poisoned lock returns Err, and unwrap panics.
NewReadPoisoned(t) ==
    /\ pc[t] = "new_read"
    /\ writer = NoThread
    /\ poisoned
    /\ pc' = [pc EXCEPT ![t] = "idle"]
    /\ cname' = [cname EXCEPT ![t] = NoName]
    /\ outcome' = [outcome EXCEPT ![t] = "new: PoisonError"]
    /\ UNCHANGED <<CONFIGS, lockVars, files, handle, getVars, histVars, calls>>

\* An existence check whose read guard lives on to the end of Config::new.
NewCheckKeepingGuard(t) ==
    /\ pc[t] = "new_check"
    /\ IF cname[t] \in DOMAIN CONFIGS
       THEN /\ pc' = [pc EXCEPT ![t] = "idle"]
            /\ readers' = readers \ {t}
            /\ handle' = [handle EXCEPT ![t] = cname[t]]
            /\ cname' = [cname EXCEPT ![t] = NoName]
            /\ outcome' = [outcome EXCEPT ![t] = "handle"]
            /\ returned' = returned \cup {cname[t]}
       ELSE /\ pc' = [pc EXCEPT ![t] = "new_write"]
            /\ UNCHANGED <<readers, handle, cname, outcome, returned>>
    /\ UNCHANGED <<CONFIGS, poisoned, writer, files, getVars, loads, inserts, failed,
                   calls>>

\* An existence check whose result is ignored: Config::new without the
\* `if !has`, loading on every call.
NewCheckAlwaysLoads(t) ==
    /\ pc[t] = "new_check"
    /\ readers' = readers \ {t}
    /\ pc' = [pc EXCEPT ![t] = "new_write"]
    /\ UNCHANGED <<CONFIGS, poisoned, writer, files, cname, handle, getVars, outcome,
                   histVars, calls>>

\* configs.get(name).is_some(), the read guard dropped at the end of the
\* block; with an entry present the call returns its Config.
NewCheck(t) ==
    /\ pc[t] = "new_check"
    /\ readers' = readers \ {t}
    /\ IF cname[t] \in DOMAIN CONFIGS
       THEN /\ pc' = [pc EXCEPT ![t] = "idle"]
            /\ handle' = [handle EXCEPT ![t] = cname[t]]
            /\ cname' = [cname EXCEPT ![t] = NoName]
            /\ outcome' = [outcome EXCEPT ![t] = "handle"]
            /\ returned' = returned \cup {cname[t]}
       ELSE /\ pc' = [pc EXCEPT ![t] = "new_write"]
            /\ UNCHANGED <<handle, cname, outcome, returned>>
    /\ UNCHANGED <<CONFIGS, poisoned, writer, files, getVars, loads, inserts, failed,
                   calls>>

\* A write guard granted while read guards are still out.
NewWriteAmongReaders(t) ==
    /\ pc[t] = "new_write"
    /\ writer = NoThread
    /\ ~poisoned
    /\ writer' = t
    /\ pc' = [pc EXCEPT ![t] = "new_load"]
    /\ UNCHANGED <<CONFIGS, poisoned, readers, files, cname, handle, getVars, outcome,
                   histVars, calls>>

\* CONFIGS.write().unwrap(): the write guard is granted while nobody holds
\* the lock.
NewWrite(t) ==
    /\ pc[t] = "new_write"
    /\ writer = NoThread
    /\ readers = {}
    /\ ~poisoned
    /\ writer' = t
    /\ pc' = [pc EXCEPT ![t] = "new_load"]
    /\ UNCHANGED <<CONFIGS, poisoned, readers, files, cname, handle, getVars, outcome,
                   histVars, calls>>

\* CONFIGS.write() on a poisoned lock returns Err, and unwrap panics.
NewWritePoisoned(t) ==
    /\ pc[t] = "new_write"
    /\ writer = NoThread
    /\ readers = {}
    /\ poisoned
    /\ pc' = [pc EXCEPT ![t] = "idle"]
    /\ cname' = [cname EXCEPT ![t] = NoName]
    /\ outcome' = [outcome EXCEPT ![t] = "new: PoisonError"]
    /\ UNCHANGED <<CONFIGS, lockVars, files, handle, getVars, histVars, calls>>

\* An insert that keeps an entry already present (entry().or_insert in place
\* of insert).
NewLoadKeepingFirst(t) ==
    /\ pc[t] = "new_load"
    /\ from_name(files, cname[t]).panic = ""
    /\ CONFIGS' = CONFIGS @@ (cname[t] :> from_name(files, cname[t]).value)
    /\ writer' = NoThread
    /\ loads' = [loads EXCEPT ![cname[t]] = @ + 1]
    /\ inserts' = [inserts EXCEPT ![cname[t]] = @ + 1]
    /\ pc' = [pc EXCEPT ![t] = "idle"]
    /\ handle' = [handle EXCEPT ![t] = cname[t]]
    /\ cname' = [cname EXCEPT ![t] = NoName]
    /\ outcome' = [outcome EXCEPT ![t] = "handle"]
    /\ returned' = returned \cup {cname[t]}
    /\ UNCHANGED <<poisoned, readers, files, getVars, failed, calls>>

\* configs.insert(name, from_name(name)) with the loader returning a Value;
\* the write guard is dropped and the Config returned.
NewLoad(t) ==
    /\ pc[t] = "new_load"
    /\ from_name(files, cname[t]).panic = ""
    /\ CONFIGS' = (cname[t] :> from_name(files, cname[t]).value) @@ CONFIGS
    /\ writer' = NoThread
    /\ loads' = [loads EXCEPT ![cname[t]] = @ + 1]
    /\ inserts' = [inserts EXCEPT ![cname[t]] = @ + 1]
    /\ pc' = [pc EXCEPT ![t] = "idle"]
    /\ handle' = [handle EXCEPT ![t] = cname[t]]
    /\ cname' = [cname EXCEPT ![t] = NoName]
    /\ outcome' = [outcome EXCEPT ![t] = "handle"]
    /\ returned' = returned \cup {cname[t]}
    /\ UNCHANGED <<poisoned, readers, files, getVars, failed, calls>>

\* A loader failure that is swallowed: nothing is inserted and the Config is
\* returned all the same.
NewLoadSwallowsFailure(t) ==
    /\ pc[t] = "new_load"
    /\ from_name(files, cname[t]).panic # ""
    /\ writer' = NoThread
    /\ loads' = [loads EXCEPT ![cname[t]] = @ + 1]
    /\ failed' = failed \cup {cname[t]}
    /\ pc' = [pc EXCEPT ![t] = "idle"]
    /\ handle' = [handle EXCEPT ![t] = cname[t]]
    /\ cname' = [cname EXCEPT ![t] = NoName]
    /\ outcome' = [outcome EXCEPT ![t] = "handle"]
    /\ returned' = returned \cup {cname[t]}
    /\ UNCHANGED <<CONFIGS, poisoned, readers, files, getVars, inserts, calls>>

\* from_name panics before insert is entered: the write guard is dropped by
\* the unwinding thread, which poisons the lock.
NewLoadPanics(t) ==
    /\ pc[t] = "new_load"
    /\ from_name(files, cname[t]).panic # ""
    /\ writer' = NoThread
    /\ poisoned' = TRUE
    /\ loads' = [loads EXCEPT ![cname[t]] = @ + 1]
    /\ failed' = failed \cup {cname[t]}
    /\ pc' = [pc EXCEPT ![t] = "idle"]
    /\ cname' = [cname EXCEPT ![t] = NoName]
    /\ outcome' = [outcome EXCEPT ![t] = from_name(files, cname[t]).panic]
    /\ UNCHANGED <<CONFIGS, readers, files, handle, getVars, inserts, returned, calls>>

\* ------------------------------------------------------------ Config::get
\* A thread calls get::<T>(path) on the Config it holds.
CallGetOn(t, path, T) ==
    /\ pc[t] = "idle"
    /\ handle[t] # NoName
    /\ pc' = [pc EXCEPT ![t] = "get_read"]
    /\ gpath' = [gpath EXCEPT ![t] = path]
    /\ gty' = [gty EXCEPT ![t] = T]
    /\ outcome' = [outcome EXCEPT ![t] = "pending"]
    /\ result' = [result EXCEPT ![t] = None]
    /\ UNCHANGED <<CONFIGS, lockVars, files, cname, handle, histVars, calls>>

CallGet(t) == \E path \in ProbePaths, T \in ProbeTypes : CallGetOn(t, path, T)

\* CONFIGS.read().unwrap() in get
GetRead(t) ==
    /\ pc[t] = "get_read"
    /\ writer = NoThread
    /\ ~poisoned
    /\ readers' = readers \cup {t}
    /\ pc' = [pc EXCEPT ![t] = "get_walk"]
    /\ UNCHANGED <<CONFIGS, poisoned, writer, files, cname, handle, getVars, outcome,
                   histVars, calls>>

GetReadPoisoned(t) ==
    /\ pc[t] = "get_read"
    /\ writer = NoThread
    /\ poisoned
    /\ pc' = [pc EXCEPT ![t] = "idle"]
    /\ outcome' = [outcome EXCEPT ![t] = "get: PoisonError"]
    /\ UNCHANGED <<CONFIGS, lockVars, files, cname, handle, getVars, histVars, calls>>

\* A get that moves the document out of the table (remove in place of get)
\* before walking it.
GetWalkTaking(t) ==
    /\ pc[t] = "get_walk"
    /\ result' = [result EXCEPT ![t] = ConfigGet(CONFIGS, handle[t], gpath[t], gty[t])]
    /\ CONFIGS' = [n \in DOMAIN CONFIGS \ {handle[t]} |-> CONFIGS[n]]
    /\ readers' = readers \ {t}
    /\ pc' = [pc EXCEPT ![t] = "idle"]
    /\ outcome' = [outcome EXCEPT ![t] = "got"]
    /\ UNCHANGED <<poisoned, writer, files, cname, handle, gpath, gty, histVars, calls>>

\* The lookup, the walk and the deserialization under the read guard, which
\* is dropped on return.
GetWalk(t) ==
    /\ pc[t] = "get_walk"
    /\ result' = [result EXCEPT ![t] = ConfigGet(CONFIGS, handle[t], gpath[t], gty[t])]
    /\ readers' = readers \ {t}
    /\ pc' = [pc EXCEPT ![t] = "idle"]
    /\ outcome' = [outcome EXCEPT ![t] = "got"]
    /\ UNCHANGED <<CONFIGS, poisoned, writer, files, cname, handle, gpath, gty, histVars,
                   calls>>

\* ------------------------------------------------------- the environment
\* Somebody outside the library writes, rewrites or deletes configs/{name}.json.
FileChange(name, f) ==
    /\ files[name] # f
    /\ files' = [files EXCEPT ![name] = f]
    /\ UNCHANGED <<CONFIGS, lockVars, pc, cname, handle, getVars, outcome, loads, inserts,
                   returned, failed, calls>>

\* ---------------------------------------------------------- specifications
\* The steps of a running call of thread t.
Running(t) ==
    \/ NewRead(t) \/ NewCheck(t) \/ NewWrite(t) \/ NewLoad(t)
    \/ GetRead(t) \/ GetWalk(t)

\* The steps in which a call of thread t panics.
Unwinding(t) ==
    \/ NewReadPoisoned(t) \/ NewWritePoisoned(t) \/ NewLoadPanics(t)
    \/ GetReadPoisoned(t)

Step(t) == Running(t) \/ Unwinding(t)

Next ==
    \/ \E t \in Threads, name \in Names : CallNew(t, name)
    \/ \E t \in Threads : CallGet(t)
    \/ \E t \in Threads : Step(t)
    \/ \E name \in Names, f \in FileStates : FileChange(name, f)

Spec == Init /\ [][Next]_vars

\* A process whose sources all hold JSON and are left alone.
JsonTexts == {TextV1, TextV2}
StableInit == \E fs \in [Names -> JsonTexts] : InitOver(fs)

StableNext ==
    \/ \E t \in Threads, name \in Names : CallNew(t, name)
    \/ \E t \in Threads : CallGet(t)
    \/ \E t \in Threads : Running(t)

StableSpec == StableInit /\ [][StableNext]_vars

\* The same process under a fair lock and a fair scheduler: the lock admits
\* no new reader while a writer waits, so readers cannot starve a writer
\* (the policy of the futex RwLock of std), and every thread that can take a
\* step eventually takes one.
WriterWaiting == \E u \in Threads : pc[u] = "new_write"
FairNewRead(t) == ~WriterWaiting /\ NewRead(t)
FairGetRead(t) == ~WriterWaiting /\ GetRead(t)

FairRunning(t) ==
    \/ FairNewRead(t) \/ NewCheck(t) \/ NewWrite(t) \/ NewLoad(t)
    \/ FairGetRead(t) \/ GetWalk(t)

FairNext ==
    \/ \E t \in Threads, name \in Names : CallNew(t, name)
    \/ \E t \in Threads : CallGet(t)
    \/ \E t \in Threads : FairRunning(t)

Fairness ==
    \A t \in Threads :
        /\ WF_vars(FairNewRead(t)) /\ WF_vars(NewCheck(t)) /\ WF_vars(NewWrite(t))
        /\ WF_vars(NewLoad(t)) /\ WF_vars(FairGetRead(t)) /\ WF_vars(GetWalk(t))

FairSpec == StableInit /\ [][FairNext]_vars /\ Fairness

\* A process in which one thread holds the Config of a loaded source and
\* has just called get::<T>(path) on it, for every path and every shape.
PathInit ==
    \E f \in JsonTexts, path \in Paths, T \in Types :
        /\ CONFIGS = ("x" :> Parse(f))
        /\ poisoned = FALSE
        /\ readers = {}
        /\ writer = NoThread
        /\ files = [n \in Names |-> f]
        /\ pc = [t \in Threads |-> IF t = 1 THEN "get_read" ELSE "idle"]
        /\ cname = [t \in Threads |-> NoName]
        /\ handle = [t \in Threads |-> IF t = 1 THEN "x" ELSE NoName]
        /\ gpath = [t \in Threads |-> IF t = 1 THEN path ELSE <<>>]
        /\ gty = [t \in Threads |-> IF t = 1 THEN T ELSE "Value"]
        /\ outcome = [t \in Threads |-> IF t = 1 THEN "pending" ELSE "none"]
        /\ result = [t \in Threads |-> None]
        /\ loads = [n \in Names |-> IF n = "x" THEN 1 ELSE 0]
        /\ inserts = [n \in Names |-> IF n = "x" THEN 1 ELSE 0]
        /\ returned = {"x"}
        /\ failed = {}
        /\ calls = 1

PathNext ==
    \/ \E t \in Threads : GetRead(t)
    \/ \E t \in Threads : GetWalk(t)

PathSpec == PathInit /\ [][PathNext]_vars

\* ------------------------------------------------------------------ claims
InCall(t) == pc[t] # "idle"
Ended(t) == pc[t] # "idle" /\ pc'[t] = "idle"

\* C1: the loader from_name is invoked at most once for every source name,
\* whatever the interleaving of the Config::new calls.
C1_LoadedAtMostOnce == \A n \in Names : loads[n] <= 1

\* C2: once a Config::new(N) has returned, no later step of any thread removes
\* or replaces the entry of N, also after the file of N has changed.
C2_EntryNeverReplaced ==
    [][\A n \in returned : n \in DOMAIN CONFIGS' /\ CONFIGS'[n] = CONFIGS[n]]_vars

\* C3: at most one insert is performed for every name, and exactly one once a
\* Config::new of that name has succeeded.
C3_OneInsertPerName ==
    \A n \in Names : inserts[n] <= 1 /\ (n \in returned => inserts[n] = 1)

\* C4: with sources that do not change, every get of every thread returns the
\* value that the one document of its source holds at the path, so any two
\* threads asking the same source for the same path get the same answer; no
\* call can panic.
C4_SameValueEverywhere ==
    \A t \in Threads :
        /\ ~ENABLED Unwinding(t)
        /\ outcome[t] = "got" =>
              /\ result[t] = ConfigGet(handle[t] :> Parse(files[handle[t]]),
                                       handle[t], gpath[t], gty[t])
              /\ \A u \in Threads :
                    (outcome[u] = "got" /\ handle[u] = handle[t]
                     /\ gpath[u] = gpath[t] /\ gty[u] = gty[t]) => result[u] = result[t]

\* Two threads that raced to load the same name have both read the same value
\* through their Configs.
C4_Witness ==
    \E t, u \in Threads :
        /\ t # u /\ outcome[t] = "got" /\ outcome[u] = "got"
        /\ handle[t] = handle[u] /\ inserts[handle[t]] = 2
        /\ result[t].some /\ result[u] = result[t]

\* C5: with loadable sources no thread asks for the write guard while it holds
\* a read guard, no state has every unfinished thread blocked on the lock, no
\* call can panic, and under fair locking every call returns.
C5_NoDeadlock ==
    /\ [](\A t \in Threads : pc[t] = "new_write" => t \notin readers /\ writer # t)
    /\ []((\E t \in Threads : InCall(t)) => \E t \in Threads : InCall(t) /\ ENABLED FairRunning(t))
    /\ [](\A t \in Threads : ~ENABLED Unwinding(t))
    /\ \A t \in Threads : InCall(t) ~> (pc[t] = "idle" /\ outcome[t] \in {"handle", "got"})

\* One thread waits for the write guard while another holds a read guard.
C5_Witness ==
    \E t, u \in Threads : pc[t] = "new_write" /\ pc[u] \in {"new_check", "get_walk"}

\* C6: when the loader fails inside Config::new(N), the table is as it was: it
\* holds no entry for N, and every other entry is unchanged.
C6_FailureLeavesNoEntry ==
    [][\A t \in Threads :
          (Ended(t) /\ outcome'[t] \in LoadPanics) =>
              (CONFIGS' = CONFIGS /\ cname[t] \notin DOMAIN CONFIGS')]_vars

\* C7: a Config::new(N) called after an earlier one failed in the loader, and
\* ending while the source is available, returns a Config whose document is
\* loaded.
C7_RetrySucceeds ==
    [][\A t \in Threads :
          (Ended(t) /\ outcome[t] = "retrying" /\ Loadable(files[cname[t]])) =>
              (outcome'[t] = "handle" /\ cname[t] \in DOMAIN CONFIGS')]_vars

\* C8: after the loader has failed for some name x, a Config::new(y) of another
\* name y that is loadable or cached, and has not failed itself, returns its
\* Config.
C8_FailureIsolated ==
    [][\A t \in Threads :
          (/\ Ended(t) /\ pc[t] \in NewPcs
           /\ cname[t] \notin failed /\ failed # {}
           /\ (Loadable(files[cname[t]]) \/ cname[t] \in DOMAIN CONFIGS)) =>
              outcome'[t] = "handle"]_vars

\* C9: a get on a Config returned by Config::new never panics: it ends with a
\* value or with None.
C9_GetNeverPanics == \A t \in Threads : outcome[t] # "get: PoisonError"

\* The segments of a path by the positions of its dots: segment k lies between
\* dot k-1 and dot k, the ends of the path standing for dot 0 and the last dot.
DotsOf(path) == {i \in 1..Len(path) : path[i] = Dot}
SegmentCount(path) == Cardinality(DotsOf(path)) + 1
DotNumber(path, k) ==
    IF k = 0 THEN 0
    ELSE IF k = SegmentCount(path) THEN Len(path) + 1
    ELSE CHOOSE i \in DotsOf(path) : Cardinality({j \in DotsOf(path) : j <= i}) = k
Segment(path, k) ==
    [i \in 1..(DotNumber(path, k) - DotNumber(path, k - 1) - 1) |->
        path[DotNumber(path, k - 1) + i]]

\* The node k object keys below the root, when every one of the first k
\* segments is a key of the object reached before it.
RECURSIVE NodeBelow(_, _, _)
NodeBelow(root, path, k) ==
    IF k = 0 THEN Some(root)
    ELSE LET above == NodeBelow(root, path, k - 1)
         IN IF /\ above.some
               /\ above.val.kind = "object"
               /\ Segment(path, k) \in DOMAIN above.val.fields
            THEN Some(above.val.fields[Segment(path, k)])
            ELSE None

HasShape(node, T) ==
    \/ T = "Value"
    \/ T = "String" /\ node.kind = "string"
    \/ T = "bool" /\ node.kind = "bool"
    \/ T = "i64" /\ node.kind = "number"
    \/ T = "u8" /\ node.kind = "number" /\ node.n \in 0..255

\* C10: get returns the node at the end of the path, as T, exactly when every
\* segment is a key of the object reached so far and that node has shape T,
\* and None in every other case.
C10_PathResolution ==
    \A t \in Threads :
        outcome[t] = "got" =>
            LET end == NodeBelow(CONFIGS[handle[t]], gpath[t], SegmentCount(gpath[t]))
            IN IF end.some /\ HasShape(end.val, gty[t])
               THEN result[t] = Some(end.val)
               ELSE result[t] = None

\* get::<i64>("a.b") has returned the 7 of {"a": {"b": 7, ...}, ...}.
C10_Witness ==
    \E t \in Threads :
        /\ outcome[t] = "got" /\ gpath[t] = <<"a", Dot, "b">> /\ gty[t] = "i64"
        /\ result[t] = Some(JNum(7))

\* The thread that takes the step, and the source name it works on: the
\* argument of its Config::new, or the name of the Config it calls get on.
Acts(t) == pc'[t] # pc[t]
WorksOn(t) ==
    IF pc[t] \in NewPcs THEN cname[t]
    ELSE IF pc[t] = "idle" /\ pc'[t] \in NewPcs THEN cname'[t]
    ELSE handle[t]
Entry(table, n) == IF n \in DOMAIN table THEN Some(table[n]) ELSE None

\* C11: no step of a Config::new(x) or of a get on a Config of x changes the
\* entry of another name y, and a get on a Config of y whose own loads never
\* failed ends as it would without x: with the lookup in the entry of y.
C11_NamesIndependent ==
    [][\A t \in Threads :
          /\ Acts(t) =>
                \A y \in Names \ {WorksOn(t)} : Entry(CONFIGS', y) = Entry(CONFIGS, y)
          /\ (Ended(t) /\ pc[t] \in GetPcs /\ handle[t] \notin failed) =>
                /\ outcome'[t] = "got"
                /\ result'[t] = ConfigGet(CONFIGS, handle[t], gpath[t], gty[t])]_vars

\* C12: a Config::new(N) that ends while N has no entry ends with the read
\* failure when the file of N is missing and with the parse failure when the
\* file holds text that is not JSON, and returns no Config in either case.
C12_TwoLoaderFailures ==
    [][\A t \in Threads :
          (/\ Ended(t) /\ pc[t] \in NewPcs
           /\ cname[t] \notin DOMAIN CONFIGS /\ ~Loadable(files[cname[t]])) =>
              /\ files[cname[t]] = Missing => outcome'[t] = "Failed to read config file"
              /\ files[cname[t]] # Missing => outcome'[t] = "Invalid JSON format"]_vars

\* C13: no step of a Config::get, from its call to its return, changes the
\* table, and every step that changes the table is a step of a Config::new.
C13_GetReadOnly ==
    [][/\ \A t \in Threads :
            (Acts(t) /\ (pc[t] \in GetPcs \/ pc'[t] \in GetPcs)) => CONFIGS' = CONFIGS
       /\ CONFIGS' # CONFIGS => \E t \in Threads : Acts(t) /\ pc[t] \in NewPcs]_vars

\* A get has found a value in a table that still holds the document it read.
C13_Witness ==
    \E t \in Threads :
        /\ outcome[t] = "got" /\ result[t] # None
        /\ result[t] = ConfigGet(CONFIGS, handle[t], gpath[t], gty[t])

\* C14: a Config::new whose existence check finds the entry is never held up
\* at the check, whoever else holds read guards, and its next step returns the
\* Config of that name with no loader call, no insert and no write guard taken:
\* only its own read guard is given back.
C14_CacheHit ==
    /\ [](\A t \in Threads :
            (pc[t] = "new_check" /\ cname[t] \in DOMAIN CONFIGS) => ENABLED NewCheck(t))
    /\ [][\A t \in Threads :
            (Acts(t) /\ pc[t] = "new_check" /\ cname[t] \in DOMAIN CONFIGS) =>
                /\ pc'[t] = "idle" /\ outcome'[t] = "handle" /\ handle'[t] = cname[t]
                /\ loads' = loads /\ inserts' = inserts /\ CONFIGS' = CONFIGS
                /\ writer = NoThread /\ writer' = NoThread
                /\ readers' = readers \ {t}]_vars

\* A Config::new has returned on a hit, the name loaded once only, while
\* another thread holds a read guard.
C14_Witness ==
    \E t \in Threads, u \in Threads :
        /\ t # u /\ u \in readers
        /\ pc[t] = "idle" /\ outcome[t] = "handle"
        /\ handle[u] = handle[t] /\ loads[handle[t]] = 1 /\ calls = 2

\* C15: a thread inside from_name holds the write guard; while it is there no
\* other thread is inside from_name and no thread holds a read guard, neither
\* in the existence check of Config::new nor in the walk of get.
C15_LoaderExclusive ==
    \A t \in Threads :
        pc[t] = "new_load" =>
            /\ writer = t
            /\ readers = {}
            /\ \A u \in Threads \ {t} : pc[u] \notin {"new_load", "new_check", "get_walk"}

\* A thread is inside from_name while another waits for a guard.
C15_Witness ==
    \E t \in Threads, u \in Threads :
        /\ pc[t] = "new_load"
        /\ pc[u] \in {"new_read", "new_write", "get_read"}

\* C16: every name for which a Config::new has returned a Config, and every
\* Config a thread holds, has an entry in the table; so the lookup of
\* self.name at the start of get always finds the document.
C16_HandleValid ==
    /\ returned \subseteq DOMAIN CONFIGS
    /\ \A t \in Threads :
          /\ handle[t] # NoName => handle[t] \in DOMAIN CONFIGS
          /\ pc[t] \in GetPcs => handle[t] \in DOMAIN CONFIGS

\* A get has returned None on a Config whose document is in the table: the
\* None comes from the walk or the deserialization.
C16_Witness ==
    \E t \in Threads :
        /\ outcome[t] = "got" /\ result[t] = None
        /\ handle[t] \in returned /\ handle[t] \in DOMAIN CONFIGS

EmptySegments(path) == {k \in 1..SegmentCount(path) : Segment(path, k) = <<>>}

\* C18: a get whose path has an empty segment returns None unless, at every
\* empty segment, the node reached so far is an object with the key ""; a
\* value it returns for a path ending in an empty segment is the member under
\* "" and not the node reached before it, and get("") never returns the root.
C18_EmptySegmentIsKey ==
    \A t \in Threads :
        (outcome[t] = "got" /\ EmptySegments(gpath[t]) # {}) =>
            LET root == CONFIGS[handle[t]]
                last == SegmentCount(gpath[t])
            IN /\ \A k \in EmptySegments(gpath[t]) :
                     LET above == NodeBelow(root, gpath[t], k - 1)
                     IN IF /\ above.some
                           /\ above.val.kind = "object"
                           /\ <<>> \in DOMAIN above.val.fields
                        THEN (k = last /\ result[t].some) =>
                                /\ result[t].val = above.val.fields[<<>>]
                                /\ result[t].val # above.val
                        ELSE result[t] = None
               /\ gpath[t] = <<>> => result[t] # Some(root)

\* get::<i64>("a.") has returned the 300 of {"a": {"": 300, ...}, ...}.
C18_Witness ==
    \E t \in Threads :
        /\ outcome[t] = "got" /\ gpath[t] = <<"a", Dot>> /\ gty[t] = "i64"
        /\ result[t] = Some(JNum(300))

====
